---- MODULE Spec2Model ----
(***************************************************************************)
(* Media-portfolio backend (FastAPI + MongoDB, backend/app).               *)
(*                                                                         *)
(* The document store holds one collection, `portfolios`.  A portfolio     *)
(* document embeds two arrays, `items` and `sections`.  Every request      *)
(* handler of api/portfolios.py and every helper of utils/database.py is   *)
(* one action of Next; a handler runs there without interleaving.  The     *)
(* upload pipeline of api/upload.py is the action upload_file of           *)
(* NextUpload.  NextSteps runs the handlers that read and then write the   *)
(* store as coroutines: two requests in flight, one step per awaited store *)
(* operation.                                                              *)
(*                                                                         *)
(* Values.  BSON / Python values are tagged records [t, v]:                *)
(*     [t |-> "oid",  v |-> h]   an ObjectId whose hex rendering is h      *)
(*     [t |-> "str",  v |-> s]   the string s                              *)
(*     [t |-> "null", v |-> ""]  None / null                               *)
(* A 24-digit hex identifier is abbreviated to a two-character string:     *)
(* "a3" is the lower-case rendering of the third ObjectId generated,       *)
(* "A3" is the same digits in upper case (ObjectId.is_valid accepts both,  *)
(* str(ObjectId) is always lower case), "zz" is a malformed identifier.    *)
(* Embedded documents are functions from field names to values, so that a  *)
(* field can be absent.  Arrays are sequences; the code's 0-based index i  *)
(* is position i + 1 here.                                                 *)
(***************************************************************************)
EXTENDS Integers, Sequences, FiniteSets, TLC

VARIABLES db, files, nextId, last, up, calls

vars == <<db, files, nextId, last, up, calls>>

(***************************************************************************)
(* Bounds.                                                                 *)
(***************************************************************************)
\* How many ObjectId() values are generated in one behaviour (portfolio,
\* item and section identifiers all come from this supply).
MaxIds == 3

\* How many files upload_file stores in one behaviour (one uuid4 each).
MaxUploads == 2

\* How many requests each connection of NextSteps sends in one behaviour.
MaxCalls == 1

(***************************************************************************)
(* Identifiers: bson.ObjectId and its string renderings.                   *)
(***************************************************************************)
HexLower == <<"a1", "a2", "a3", "a4", "a5", "a6", "a7", "a8">>

HexUpper == <<"A1", "A2", "A3", "A4", "A5", "A6", "A7", "A8">>

BadId == "zz"

IdNums == 1..Len(HexLower)

LowerStrs == {HexLower[n] : n \in IdNums}

UpperStrs == {HexUpper[n] : n \in IdNums}

\* ObjectId.is_valid(s) for a str s: 24 hex digits of either case.
IsValid(s) == s \in LowerStrs \cup UpperStrs

\* The lower-case digits of a valid identifier string.
Lower(s) ==
    IF s \in UpperStrs THEN HexLower[CHOOSE n \in IdNums : HexUpper[n] = s] ELSE s

None == [t |-> "null", v |-> ""]

Str(s) == [t |-> "str", v |-> s]

\* ObjectId(s) for a valid s: the case of the digits is lost.
Oid(s) == [t |-> "oid", v |-> Lower(s)]

\* Python str(x).
PyStr(x) == IF x.t = "null" THEN "None" ELSE x.v

\* Python truthiness of a value (None and "" are falsy).
Truthy(x) == x.t = "oid" \/ (x.t = "str" /\ x.v # "")

\* dict.get(key): None when the key is absent.
Get(d, k) == IF k \in DOMAIN d THEN d[k] ELSE None

\* Python `a or b`.
PyOr(a, b) == IF Truthy(a) THEN a ELSE b

\* MongoDB equality match {key: val} on an embedded document: the field is
\* present with a value of the same type and content (a string never equals
\* an ObjectId).
Matches(d, k, val) == k \in DOMAIN d /\ d[k] = val

\* $set of one field / $unset of one field on an embedded document.
SetField(d, k, val) == (k :> val) @@ d

UnsetField(d, k) == [f \in DOMAIN d \ {k} |-> d[f]]

\* Positions of an array.
Idx(arr) == 1..Len(arr)

\* $pull: the array without the elements at the positions that match, the
\* others in their order.
Pull(arr, hits) ==
    LET keep == Idx(arr) \ hits
    IN  [k \in 1..Cardinality(keep) |->
            arr[CHOOSE i \in keep : Cardinality({j \in keep : j <= i}) = k]]

\* The first position of arr among the positions that match, 0 when there
\* is none.
FirstIdx(arr, hits) ==
    IF hits \cap Idx(arr) = {} THEN 0
    ELSE CHOOSE i \in hits \cap Idx(arr) : \A j \in hits \cap Idx(arr) : i <= j

(***************************************************************************)
(* The uploads directory.                                                  *)
(***************************************************************************)
\* f"{uuid.uuid4()}.{file_extension}" for the n-th upload of a video / an
\* image, and the thumbnail name derived from it.
VideoName == <<"u1.mp4", "u2.mp4", "u3.mp4", "u4.mp4">>

ImageName == <<"u1.png", "u2.png", "u3.png", "u4.png">>

ThumbName == <<"u1_thumb.jpg", "u2_thumb.jpg", "u3_thumb.jpg", "u4_thumb.jpg">>

AllNames == VideoName \o ImageName \o ThumbName

AllUrls ==
    << "/uploads/u1.mp4", "/uploads/u2.mp4", "/uploads/u3.mp4", "/uploads/u4.mp4",
       "/uploads/u1.png", "/uploads/u2.png", "/uploads/u3.png", "/uploads/u4.png",
       "/uploads/u1_thumb.jpg", "/uploads/u2_thumb.jpg", "/uploads/u3_thumb.jpg",
       "/uploads/u4_thumb.jpg" >>

\* f"/uploads/{name}"
UrlOf(name) == AllUrls[CHOOSE i \in 1..Len(AllNames) : AllNames[i] = name]

\* url.replace("/uploads/", "")
StripUploads(url) ==
    IF \E i \in 1..Len(AllUrls) : AllUrls[i] = url
    THEN AllNames[CHOOSE i \in 1..Len(AllUrls) : AllUrls[i] = url]
    ELSE url

\* The files an earlier video upload left in uploads/ (see upload_file).
StoredVideo == VideoName[1]

StoredThumb == ThumbName[1]

(***************************************************************************)
(* Pydantic models (models/portfolio.py).  model.dict() dumps by field     *)
(* name, not by alias, and PyObjectId serialises as str(x): the identifier *)
(* given as `_id` is stored under the key "id" as a string.                *)
(***************************************************************************)
\* PortfolioItem(**item).dict() for item["_id"] = oid.  title stands for every
\* plain field (type, url, description, metadata, order, ...).
PortfolioItemDict(oid, item) ==
    [id |-> Str(PyStr(oid)),
     title |-> item.title,
     section_id |-> item.section_id,
     filename |-> item.filename,
     thumbnail_url |-> item.thumbnail_url]

\* Section(**section_dict).dict() for section_dict["_id"] = oid.
SectionDict(oid, section) ==
    [id |-> Str(PyStr(oid)), title |-> section.title]

\* PortfolioCreate.dict() plus the empty arrays; insert_one adds `_id`.
NewPortfolio(oid, portfolio) ==
    [_id |-> oid, title |-> portfolio.title, items |-> <<>>, sections |-> <<>>]

(***************************************************************************)
(* The collection db.portfolios: a function from the hex digits of a       *)
(* portfolio's `_id` (always an ObjectId, assigned by insert_one) to the   *)
(* document.                                                               *)
(***************************************************************************)
\* find_one({"_id": ObjectId(portfolio_id)}) finds a document.
Exists(d, portfolio_id) == Lower(portfolio_id) \in DOMAIN d

\* The document found.
FindOne(d, portfolio_id) == d[Lower(portfolio_id)]

\* update_one({"_id": ...}, ...) replacing the document by doc.
Store(d, portfolio_id, doc) == [d EXCEPT ![Lower(portfolio_id)] = doc]

\* delete_one({"_id": ...}).
DeleteOne(d, portfolio_id) ==
    [p \in DOMAIN d \ {Lower(portfolio_id)} |-> d[p]]

\* An operation's outcome: the HTTP status (200, or the HTTPException's
\* status_code, or 500 for an uncaught exception), the detail / returned
\* value, and the store, directory and identifier supply it leaves.
Outcome(status, body, d, f, n) ==
    [status |-> status, body |-> body, db |-> d, files |-> f, nextId |-> n]

Fail(status, detail, d, f, n) == Outcome(status, Str(detail), d, f, n)

(***************************************************************************)
(* Locating an item inside a portfolio.                                    *)
(***************************************************************************)
\* item.get("_id") or item.get("id")
ItemObjectId(item) == PyOr(Get(item, "_id"), Get(item, "id"))

\* The item_id_str of the lookup loops of update_portfolio_item and
\* delete_portfolio_item: str() of that field, None when it is falsy.
ItemIdStr(item) ==
    LET item_object_id == ItemObjectId(item)
    IN  IF item_object_id.t = "oid" THEN Str(PyStr(item_object_id))
        ELSE IF Truthy(item_object_id) THEN Str(PyStr(item_object_id))
        ELSE None

\* The test of those loops: item_id_str == item_id.
LoopMatch(item, item_id) == ItemIdStr(item) = Str(item_id)

\* The test of find_item_by_id:
\* item_id_field == item_obj_id or str(item_id_field) == item_id.
FindMatch(item, item_id) ==
    LET item_id_field == ItemObjectId(item)
    IN  item_id_field = Oid(item_id) \/ PyStr(item_id_field) = item_id

\* find_item_by_id(portfolio, item_id) for a valid item_id: the first item
\* in array order that passes the test, None when there is none.
find_item_by_id(portfolio, item_id) ==
    LET i == FirstIdx(portfolio.items,
                 {p \in Idx(portfolio.items) :
                     FindMatch(portfolio.items[p], item_id)})
    IN  IF i = 0 THEN None ELSE portfolio.items[i]

(***************************************************************************)
(* Deleting backing files.  `denied` is the set of files whose os.remove   *)
(* raises (PermissionError, ...); os.path.exists never raises.             *)
(***************************************************************************)
\* os.remove(path) guarded by os.path.exists(path): the directory afterwards
\* and whether an exception was raised.
RemoveIfExists(f, name, denied) ==
    IF name \notin f THEN [files |-> f, raised |-> FALSE]
    ELSE IF name \in denied THEN [files |-> f, raised |-> TRUE]
    ELSE [files |-> f \ {name}, raised |-> FALSE]

\* The two deletions made for one item inside a try block: the main file,
\* then the thumbnail named by thumbnail_url.  An exception in the first
\* skips the second.
RemoveItemFiles(item, f, denied) ==
    LET filename == Get(item, "filename")
        thumbnail_url == Get(item, "thumbnail_url")
        main == IF Truthy(filename)
                THEN RemoveIfExists(f, PyStr(filename), denied)
                ELSE [files |-> f, raised |-> FALSE]
    IN  IF main.raised THEN main
        ELSE IF Truthy(thumbnail_url)
        THEN RemoveIfExists(main.files, StripUploads(PyStr(thumbnail_url)), denied)
        ELSE main

\* The loop of delete_portfolio over items[i..], inside one try block: the
\* first exception ends the loop.
RECURSIVE RemoveAllFiles(_, _, _, _)
RemoveAllFiles(items, i, f, denied) ==
    IF i > Len(items) THEN f
    ELSE LET r == RemoveItemFiles(items[i], f, denied)
         IN  IF r.raised THEN r.files
             ELSE RemoveAllFiles(items, i + 1, r.files, denied)

\* cleanup_item_files: the main file, then the thumbnail named by the last
\* segment of thumbnail_url, each removal in a try block of its own.
cleanup_item_files(item, f, denied) ==
    LET filename == Get(item, "filename")
        thumbnail_url == Get(item, "thumbnail_url")
        main == IF Truthy(filename)
                THEN RemoveIfExists(f, PyStr(filename), denied).files
                ELSE f
    IN  IF Truthy(thumbnail_url)
        THEN RemoveIfExists(main, StripUploads(PyStr(thumbnail_url)), denied).files
        ELSE main

\* cleanup_portfolio_files: cleanup_item_files for items[i..] in order.
RECURSIVE cleanup_portfolio_files(_, _, _, _)
cleanup_portfolio_files(items, i, f, denied) ==
    IF i > Len(items) THEN f
    ELSE cleanup_portfolio_files(items, i + 1,
                                 cleanup_item_files(items[i], f, denied), denied)

(***************************************************************************)
(* Portfolio endpoints (api/portfolios.py).                                *)
(***************************************************************************)
create_portfolio(d, f, n, portfolio) ==
    LET doc == NewPortfolio(Oid(HexLower[n]), portfolio)
    IN  Outcome(200, doc, (HexLower[n] :> doc) @@ d, f, n + 1)

get_portfolio(d, f, n, portfolio_id) ==
    IF ~IsValid(portfolio_id) THEN Fail(400, "Invalid portfolio ID", d, f, n)
    ELSE IF ~Exists(d, portfolio_id) THEN Fail(404, "Portfolio not found", d, f, n)
    ELSE Outcome(200, FindOne(d, portfolio_id), d, f, n)

\* update_data = portfolio.dict(); update_data["updated_at"] = None
update_portfolio(d, f, n, portfolio_id, portfolio) ==
    IF ~IsValid(portfolio_id) THEN Fail(400, "Invalid portfolio ID", d, f, n)
    ELSE IF ~Exists(d, portfolio_id) THEN Fail(404, "Portfolio not found", d, f, n)
    ELSE LET doc == SetField(SetField(FindOne(d, portfolio_id),
                                      "title", portfolio.title),
                             "updated_at", None)
         IN  Outcome(200, doc, Store(d, portfolio_id, doc), f, n)

create_portfolio_item(d, f, n, portfolio_id, item) ==
    IF ~IsValid(portfolio_id) THEN Fail(400, "Invalid portfolio ID", d, f, n)
    ELSE IF ~Exists(d, portfolio_id) THEN Fail(404, "Portfolio not found", d, f, n)
    ELSE LET portfolio == FindOne(d, portfolio_id)
             new_item == PortfolioItemDict(Oid(HexLower[n]), item)
             doc == [portfolio EXCEPT !.items = Append(@, new_item)]
         IN  Outcome(200, new_item, Store(d, portfolio_id, doc), f, n + 1)

\* Variant: the element is replaced by the submitted document, keeping only
\* its identifier.
SetItemFields_Replacing(items, item_index, update_data) ==
    [items EXCEPT ![item_index] =
        [k \in DOMAIN update_data \cup (DOMAIN @ \cap {"id", "_id"}) |->
            IF k \in DOMAIN update_data THEN update_data[k] ELSE @[k]]]

\* {"$set": {f"items.{item_index}.{key}": value for key, value in update_data}}
SetItemFields(items, item_index, update_data) ==
    [items EXCEPT ![item_index] =
        [k \in DOMAIN update_data \cup DOMAIN @ |->
            IF k \in DOMAIN update_data THEN update_data[k] ELSE @[k]]]

update_portfolio_item(d, f, n, portfolio_id, item_id, update_data) ==
    IF ~IsValid(portfolio_id) THEN Fail(400, "Invalid portfolio ID", d, f, n)
    ELSE IF ~IsValid(item_id) THEN Fail(400, "Invalid item ID", d, f, n)
    ELSE IF ~Exists(d, portfolio_id) THEN Fail(404, "Portfolio not found", d, f, n)
    ELSE LET portfolio == FindOne(d, portfolio_id)
             item_index == FirstIdx(portfolio.items,
                               {p \in Idx(portfolio.items) :
                                   LoopMatch(portfolio.items[p], item_id)})
         IN  IF item_index = 0 THEN Fail(404, "Item not found", d, f, n)
             ELSE LET updated_portfolio ==
                          [portfolio EXCEPT !.items =
                              SetItemFields(@, item_index, update_data)]
                      d2 == Store(d, portfolio_id, updated_portfolio)
                      j == FirstIdx(updated_portfolio.items,
                               {p \in Idx(updated_portfolio.items) :
                                   LoopMatch(updated_portfolio.items[p], item_id)})
                  IN  IF j = 0 THEN Fail(404, "Updated item not found", d2, f, n)
                      ELSE Outcome(200, updated_portfolio.items[j], d2, f, n)

\* The $or of the $pull of delete_portfolio_item.
PullsItem(item, item_id) ==
    \/ Matches(item, "_id", Oid(item_id))
    \/ Matches(item, "id", Oid(item_id))
    \/ Matches(item, "_id", Str(item_id))
    \/ Matches(item, "id", Str(item_id))

delete_portfolio_item(d, f, n, portfolio_id, item_id, denied) ==
    IF ~IsValid(portfolio_id) THEN Fail(400, "Invalid portfolio ID", d, f, n)
    ELSE IF ~IsValid(item_id) THEN Fail(400, "Invalid item ID", d, f, n)
    ELSE IF ~Exists(d, portfolio_id) THEN Fail(404, "Portfolio not found", d, f, n)
    ELSE LET portfolio == FindOne(d, portfolio_id)
             i == FirstIdx(portfolio.items,
                      {p \in Idx(portfolio.items) :
                          LoopMatch(portfolio.items[p], item_id)})
         IN  IF i = 0 THEN Fail(404, "Item not found", d, f, n)
             ELSE LET item_to_delete == portfolio.items[i]
                      updated_portfolio ==
                          [portfolio EXCEPT !.items =
                              Pull(@,
                                  {p \in Idx(@) :
                                      PullsItem(@[p], item_id)})]
                      d2 == Store(d, portfolio_id, updated_portfolio)
                      remaining_items == Len(updated_portfolio.items)
                      original_items == Len(portfolio.items)
                  IN  IF remaining_items >= original_items
                      THEN Fail(500, "Item deletion failed", d2, f, n)
                      ELSE Outcome(200,
                                   [items_removed |-> original_items - remaining_items],
                                   d2,
                                   RemoveItemFiles(item_to_delete, f, denied).files,
                                   n)

delete_portfolio(d, f, n, portfolio_id, denied) ==
    IF ~IsValid(portfolio_id) THEN Fail(400, "Invalid portfolio ID", d, f, n)
    ELSE IF ~Exists(d, portfolio_id) THEN Fail(404, "Portfolio not found", d, f, n)
    ELSE LET portfolio == FindOne(d, portfolio_id)
         IN  Outcome(200, Str("Portfolio deleted successfully"),
                     DeleteOne(d, portfolio_id),
                     RemoveAllFiles(portfolio.items, 1, f, denied), n)

(***************************************************************************)
(* Section endpoints (api/portfolios.py).                                  *)
(***************************************************************************)
create_section(d, f, n, portfolio_id, section) ==
    IF ~IsValid(portfolio_id) THEN Fail(400, "Invalid portfolio ID", d, f, n)
    ELSE IF ~Exists(d, portfolio_id) THEN Fail(404, "Portfolio not found", d, f, n)
    ELSE LET portfolio == FindOne(d, portfolio_id)
             new_section == SectionDict(Oid(HexLower[n]), section)
             doc == [portfolio EXCEPT !.sections = Append(@, new_section)]
         IN  Outcome(200, new_section, Store(d, portfolio_id, doc), f, n + 1)

\* Section(**section) as FastAPI returns it: validated into an ObjectId and
\* serialised by alias as a string.
SectionOut(section) ==
    LET ident == IF "_id" \in DOMAIN section THEN section["_id"] ELSE section.id
    IN  [_id |-> Str(PyStr(Oid(PyStr(ident)))), title |-> section.title]

list_sections(d, f, n, portfolio_id) ==
    IF ~IsValid(portfolio_id) THEN Fail(400, "Invalid portfolio ID", d, f, n)
    ELSE IF ~Exists(d, portfolio_id) THEN Fail(404, "Portfolio not found", d, f, n)
    ELSE LET sections == FindOne(d, portfolio_id).sections
         IN  Outcome(200, [i \in Idx(sections) |-> SectionOut(sections[i])], d, f, n)

\* The loop `for section_data in sections: if str(section_data["_id"]) ==
\* section_id` from position i on: "found" with the section, "KeyError" at a
\* section that has no `_id`, "none" at the end of the array.
RECURSIVE SectionLoop(_, _, _)
SectionLoop(sections, i, section_id) ==
    IF i > Len(sections) THEN [r |-> "none", at |-> 0]
    ELSE IF "_id" \notin DOMAIN sections[i] THEN [r |-> "KeyError", at |-> i]
    ELSE IF PyStr(sections[i]["_id"]) = section_id THEN [r |-> "found", at |-> i]
    ELSE SectionLoop(sections, i + 1, section_id)

update_section(d, f, n, portfolio_id, section_id, section) ==
    IF ~IsValid(portfolio_id) THEN Fail(400, "Invalid portfolio ID", d, f, n)
    ELSE IF ~IsValid(section_id) THEN Fail(400, "Invalid section ID", d, f, n)
    ELSE LET k == IF Exists(d, portfolio_id)
                  THEN FirstIdx(FindOne(d, portfolio_id).sections,
                           {p \in Idx(FindOne(d, portfolio_id).sections) :
                               Matches(FindOne(d, portfolio_id).sections[p], "_id", Oid(section_id))})
                  ELSE 0
         IN  IF k = 0 THEN Fail(404, "Portfolio or section not found", d, f, n)
             ELSE LET portfolio == FindOne(d, portfolio_id)
                      doc == [portfolio EXCEPT !.sections[k] =
                                 SetField(SetField(@, "title", section.title),
                                          "updated_at", None)]
                      d2 == Store(d, portfolio_id, doc)
                      hit == SectionLoop(doc.sections, 1, section_id)
                  IN  CASE hit.r = "found" ->
                               Outcome(200, SectionOut(doc.sections[hit.at]), d2, f, n)
                        [] hit.r = "KeyError" -> Fail(500, "KeyError", d2, f, n)
                        [] OTHER -> Fail(404, "Section not found", d2, f, n)

\* Variant: the array filter compares with ObjectId(section_id).
DetachSectionItems_ByObjectId(items, section_id) ==
    [i \in Idx(items) |->
        IF Matches(items[i], "section_id", Oid(section_id))
        THEN UnsetField(items[i], "section_id")
        ELSE items[i]]

\* Variant: the $pull matches the field `_id` as an ObjectId.
PullSection_ByObjectId(sections, section_id) ==
    Pull(sections,
        {p \in Idx(sections) :
            Matches(sections[p], "_id", Oid(section_id))})

\* {"$unset": {"items.$[elem].section_id": ""}},
\* array_filters=[{"elem.section_id": section_id}]
\* Variant: the positional operator $ instead of $[elem]: only the first
\* item of the section is detached.
DetachSectionItems_FirstOnly(items, section_id) ==
    LET first == FirstIdx(items,
                     {p \in Idx(items) :
                         Matches(items[p], "section_id", Str(section_id))})
    IN  [i \in Idx(items) |->
            IF i = first THEN UnsetField(items[i], "section_id") ELSE items[i]]

DetachSectionItems(items, section_id) ==
    [i \in Idx(items) |->
        IF Matches(items[i], "section_id", Str(section_id))
        THEN UnsetField(items[i], "section_id")
        ELSE items[i]]

\* {"$pull": {"sections": {"id": section_id}}}
PullSection(sections, section_id) ==
    Pull(sections,
        {p \in Idx(sections) :
            Matches(sections[p], "id", Str(section_id))})

delete_section(d, f, n, portfolio_id, section_id) ==
    IF ~IsValid(portfolio_id) THEN Fail(400, "Invalid portfolio ID", d, f, n)
    ELSE IF ~IsValid(section_id) THEN Fail(400, "Invalid section ID", d, f, n)
    ELSE IF ~Exists(d, portfolio_id) THEN Fail(404, "Portfolio not found", d, f, n)
    ELSE LET portfolio == FindOne(d, portfolio_id)
             doc == [portfolio EXCEPT
                        !.items = DetachSectionItems(@, section_id),
                        !.sections = PullSection(@, section_id)]
         IN  Outcome(200, Str("Section deleted successfully"),
                     Store(d, portfolio_id, doc), f, n)

(***************************************************************************)
(* Helpers of utils/database.py.  validate_object_id raises 400.           *)
(***************************************************************************)
PyBool(b) == [t |-> "bool", v |-> IF b THEN "True" ELSE "False"]

get_portfolio_or_404(d, f, n, portfolio_id) ==
    IF ~IsValid(portfolio_id) THEN Fail(400, "Invalid ID format", d, f, n)
    ELSE IF ~Exists(d, portfolio_id) THEN Fail(404, "Portfolio not found", d, f, n)
    ELSE Outcome(200, FindOne(d, portfolio_id), d, f, n)

\* next((s for s in sections if s["_id"] == section_obj_id), None) from
\* position i on.
RECURSIVE SectionNext(_, _, _)
SectionNext(sections, i, section_obj_id) ==
    IF i > Len(sections) THEN [r |-> "none", at |-> 0]
    ELSE IF "_id" \notin DOMAIN sections[i] THEN [r |-> "KeyError", at |-> i]
    ELSE IF sections[i]["_id"] = section_obj_id THEN [r |-> "found", at |-> i]
    ELSE SectionNext(sections, i + 1, section_obj_id)

get_section_or_404(d, f, n, portfolio_id, section_id) ==
    LET got == get_portfolio_or_404(d, f, n, portfolio_id)
    IN  IF got.status # 200 THEN got
        ELSE IF ~IsValid(section_id) THEN Fail(400, "Invalid ID format", d, f, n)
        ELSE LET hit == SectionNext(got.body.sections, 1, Oid(section_id))
             IN  CASE hit.r = "found" ->
                          Outcome(200, got.body.sections[hit.at], d, f, n)
                   [] hit.r = "KeyError" -> Fail(500, "KeyError", d, f, n)
                   [] OTHER -> Fail(404, "Section not found", d, f, n)

get_item_or_404(d, f, n, portfolio_id, item_id) ==
    LET got == get_portfolio_or_404(d, f, n, portfolio_id)
    IN  IF got.status # 200 THEN got
        ELSE IF ~IsValid(item_id) THEN Fail(400, "Invalid ID format", d, f, n)
        ELSE LET item == find_item_by_id(got.body, item_id)
             IN  IF item = None THEN Fail(404, "Item not found", d, f, n)
                 ELSE Outcome(200, item, d, f, n)

\* The two $pull attempts of remove_item_from_portfolio on an items array:
\* by `_id` as ObjectId, and only if that modified nothing by `id` as string.
RemoveItemPulls(items, item_id) ==
    LET first == Pull(items,
                     {p \in Idx(items) :
                         Matches(items[p], "_id", Oid(item_id))})
    IN  IF Len(first) # Len(items) THEN first
        ELSE Pull(items,
                 {p \in Idx(items) :
                     Matches(items[p], "id", Str(item_id))})

remove_item_from_portfolio(d, f, n, portfolio_id, item_id) ==
    IF ~IsValid(portfolio_id) THEN Fail(400, "Invalid ID format", d, f, n)
    ELSE IF ~IsValid(item_id) THEN Fail(400, "Invalid ID format", d, f, n)
    ELSE IF ~Exists(d, portfolio_id) THEN Outcome(200, PyBool(FALSE), d, f, n)
    ELSE LET portfolio == FindOne(d, portfolio_id)
             items2 == RemoveItemPulls(portfolio.items, item_id)
             doc == [portfolio EXCEPT !.items = items2]
         IN  Outcome(200, PyBool(Len(items2) # Len(portfolio.items)),
                     Store(d, portfolio_id, doc), f, n)

remove_section_from_portfolio(d, f, n, portfolio_id, section_id) ==
    IF ~IsValid(portfolio_id) THEN Fail(400, "Invalid ID format", d, f, n)
    ELSE IF ~IsValid(section_id) THEN Fail(400, "Invalid ID format", d, f, n)
    ELSE IF ~Exists(d, portfolio_id) THEN Outcome(200, PyBool(FALSE), d, f, n)
    ELSE LET portfolio == FindOne(d, portfolio_id)
             sections2 == Pull(portfolio.sections,
                              {p \in Idx(portfolio.sections) :
                                  Matches(portfolio.sections[p], "_id", Oid(section_id))})
             doc == [portfolio EXCEPT !.sections = sections2]
         IN  Outcome(200, PyBool(Len(sections2) # Len(portfolio.sections)),
                     Store(d, portfolio_id, doc), f, n)

(***************************************************************************)
(* Requests.  Identifier arguments are the renderings of the identifiers   *)
(* generated so far (so an identifier of the wrong kind, or of a deleted   *)
(* document, is a well-formed identifier that finds nothing) and one       *)
(* malformed string.  The values a client writes into a         *)
(* document are those the API has handed out and that are still stored.    *)
(***************************************************************************)
IdArgs(n) == {HexLower[k] : k \in 1..(n - 1)} \cup {BadId}

\* Item and section identifiers are also sent with upper-case digits.
ChildArgs(n) == IdArgs(n) \cup {HexUpper[k] : k \in 1..(n - 1)}

\* Every embedded item / section of the store.
AllItems(d) == UNION {{d[p].items[i] : i \in Idx(d[p].items)} : p \in DOMAIN d}

AllSections(d) ==
    UNION {{d[p].sections[i] : i \in Idx(d[p].sections)} : p \in DOMAIN d}

\* The section references a client assigns: none, or a stored section.
SectionRefs(d) == {None} \cup {sec.id : sec \in AllSections(d)}

\* The identifier strings of stored items.
ItemIdValues(d) == {it.id : it \in AllItems(d)}

PortfolioBodies == {[title |-> Str("Demo")]}

SectionBodies == {[title |-> Str("Work")]}

\* The item payload a client builds from an upload result.
ItemBodies(d) ==
    {[title |-> Str("t0"), section_id |-> sec, filename |-> Str(StoredVideo),
      thumbnail_url |-> Str(UrlOf(StoredThumb))] : sec \in SectionRefs(d)}

\* The field maps of PATCH .../items/{item_id}: any JSON object.  Here: one
\* plain field, the section reference, either identifier field, and a map
\* of two keys.
PatchBodies(d) ==
    {("title" :> Str("t1"))}
    \cup {("section_id" :> v) : v \in SectionRefs(d)}
    \cup {("id" :> v) : v \in ItemIdValues(d)}
    \cup {("_id" :> v) : v \in ItemIdValues(d)}
    \cup {("title" :> Str("t1")) @@ ("section_id" :> v) : v \in SectionRefs(d) \ {None}}

NoData == [k \in {} |-> None]

EmptyDb == [p \in {} |-> None]

\* No request is being served.
Idle ==
    [op |-> "none", portfolio_id |-> "", id |-> "", data |-> NoData,
     denied |-> {}, pre |-> EmptyDb, had |-> {}, status |-> 0, body |-> None]

\* A request is served from start to end: `last` records its name and
\* arguments, the store and the uploads directory before it, and its
\* response, until the response has been sent (Respond).
Done(op, portfolio_id, id, data, denied, out) ==
    /\ last = Idle
    /\ last' = [op |-> op, portfolio_id |-> portfolio_id, id |-> id,
                data |-> data, denied |-> denied, pre |-> db, had |-> files,
                status |-> out.status, body |-> out.body]
    /\ db' = out.db
    /\ files' = out.files
    /\ nextId' = out.nextId
    /\ UNCHANGED <<up, calls>>

(***************************************************************************)
(* The upload pipeline (api/upload.py).  Sizes are byte counts.  What the  *)
(* media libraries do with the stored bytes is the request's environment:  *)
(*   pil      Image.open: "ok" | "raises"                                  *)
(*   cap      cv2.VideoCapture in get_file_metadata: "ok", "no_fps" (the   *)
(*            container reports no frame rate), "unopened" (every property *)
(*            reads 0.0) or "raises"                                       *)
(*   probe    ffmpeg.probe: "ok" | "raises"                                *)
(*   first, fallback   the two ffmpeg extractions: "ok" (a non-empty       *)
(*            thumbnail file), "empty" (no file or an empty one), "raises" *)
(*   opencv   generate_opencv_thumbnail: "ok", "unopened", "noframe",      *)
(*            "writefail" or "raises"                                      *)
(***************************************************************************)
ALLOWED_IMAGES == {"image/jpeg", "image/jpg", "image/png", "image/webp"}

ALLOWED_VIDEOS ==
    {"video/mp4", "video/webm", "video/quicktime", "video/x-msvideo",
     "video/mpeg", "application/mp4"}

MAX_IMAGE_SIZE == 10 * 1024 * 1024

MAX_VIDEO_SIZE == 50 * 1024 * 1024

IntV(n) == [t |-> "int", n |-> n]

\* content_type.split("/")[1]
FormatOf(content_type) ==
    CASE content_type = "image/png" -> "png"
      [] content_type = "image/jpeg" -> "jpeg"
      [] content_type = "video/mp4" -> "mp4"
      [] content_type = "application/mp4" -> "mp4"
      [] OTHER -> "plain"

\* The properties cap.get(...) reads, as integers: width, height, fps,
\* frame count.
CapProps(cap) ==
    CASE cap = "ok" -> [width |-> 640, height |-> 360, fps |-> 30, frames |-> 300]
      [] cap = "no_fps" -> [width |-> 640, height |-> 360, fps |-> 0, frames |-> 0]
      [] OTHER -> [width |-> 0, height |-> 0, fps |-> 0, frames |-> 0]

\* The image size Image.open reads.
ImageSize == [width |-> 800, height |-> 600]

get_file_metadata(file_type, size, content_type, env) ==
    LET metadata == [size |-> size, format |-> FormatOf(content_type),
                     dimensions |-> None, duration |-> None]
    IN  IF file_type = "image"
        THEN IF env.pil = "raises" THEN metadata
             ELSE [metadata EXCEPT !.dimensions = ImageSize]
        ELSE IF env.cap = "raises" THEN metadata
        ELSE LET c == CapProps(env.cap)
                 duration == IF c.fps > 0 THEN c.frames \div c.fps ELSE 0
             IN  [metadata EXCEPT
                     !.dimensions = [width |-> c.width, height |-> c.height],
                     !.duration = IntV(duration)]

\* Variant: a frame that could not be written still yields a reference.
generate_opencv_thumbnail_IgnoringWrite(thumbnail_filename, env) ==
    IF env.opencv \in {"ok", "writefail"}
    THEN [url |-> Str(UrlOf(thumbnail_filename)), written |-> env.opencv = "ok"]
    ELSE [url |-> None, written |-> FALSE]

\* generate_opencv_thumbnail: the reference returned and whether the
\* thumbnail file was written.
generate_opencv_thumbnail(thumbnail_filename, env) ==
    IF env.opencv = "ok"
    THEN [url |-> Str(UrlOf(thumbnail_filename)), written |-> TRUE]
    ELSE [url |-> None, written |-> FALSE]

\* generate_video_thumbnail: the reference returned, whether a non-empty
\* thumbnail file is left, and the samplings attempted in order ("computed":
\* at min(3.0, duration * 0.1); "zero": at 0; "opencv").
generate_video_thumbnail(video_exists, thumbnail_filename, env) ==
    LET url == Str(UrlOf(thumbnail_filename))
        cv == generate_opencv_thumbnail(thumbnail_filename, env)
        viaOpencv(tried) ==
            [url |-> cv.url, written |-> cv.written,
             attempts |-> Append(tried, "opencv")]
        viaFallback(tried) ==
            IF env.fallback = "ok"
            THEN [url |-> url, written |-> TRUE, attempts |-> Append(tried, "zero")]
            ELSE viaOpencv(Append(tried, "zero"))
    IN  IF ~video_exists THEN [url |-> None, written |-> FALSE, attempts |-> <<>>]
        ELSE IF env.probe = "raises" THEN viaFallback(<<>>)
        ELSE CASE env.first = "ok" ->
                      [url |-> url, written |-> TRUE, attempts |-> <<"computed">>]
               [] env.first = "raises" -> viaFallback(<<"computed">>)
               [] OTHER -> viaOpencv(<<"computed">>)

\* file.filename.split(".")[-1] joined to the k-th uuid4.
UniqueFilename(k, filename) ==
    IF filename = "clip.mp4" THEN VideoName[k] ELSE ImageName[k]

\* f"{name_without_ext}_thumb.jpg"
ThumbnailFilename(k) == ThumbName[k]

\* Variant: the ceiling itself is rejected.
ImageTooLarge_AtCeiling(file_type, file_size) ==
    file_type = "image" /\ file_size >= MAX_IMAGE_SIZE

\* if file_type == "image" and file_size > MAX_IMAGE_SIZE
ImageTooLarge(file_type, file_size) ==
    file_type = "image" /\ file_size > MAX_IMAGE_SIZE

\* if file_type == "video" and file_size > MAX_VIDEO_SIZE
VideoTooLarge(file_type, file_size) ==
    file_type = "video" /\ file_size > MAX_VIDEO_SIZE

\* Variant: the content is saved before its size is validated.
upload_file_SavingFirst(f, k, file, file_type, env) ==
    IF file_type = "image" /\ file.content_type \notin ALLOWED_IMAGES
    THEN [status |-> 400, detail |-> "Invalid image format", files |-> f, stored |-> 0]
    ELSE IF file_type = "video" /\ file.content_type \notin ALLOWED_VIDEOS
    THEN [status |-> 400, detail |-> "Invalid video format", files |-> f, stored |-> 0]
    ELSE LET unique_filename == UniqueFilename(k, file.filename)
             f2 == f \cup {unique_filename}
             metadata == get_file_metadata(file_type, file.size, file.content_type, env)
             thumb == IF file_type = "video"
                      THEN generate_video_thumbnail(unique_filename \in f2,
                                                    ThumbnailFilename(k), env)
                      ELSE [url |-> None, written |-> FALSE, attempts |-> <<>>]
         IN  IF ImageTooLarge(file_type, file.size)
             THEN [status |-> 400, detail |-> "Image too large (max 10MB)",
                   files |-> f2, stored |-> 1]
             ELSE IF VideoTooLarge(file_type, file.size)
             THEN [status |-> 400, detail |-> "Video too large (max 50MB)",
                   files |-> f2, stored |-> 1]
             ELSE [status |-> 200, detail |-> "",
                   filename |-> unique_filename,
                   original_name |-> file.filename,
                   url |-> UrlOf(unique_filename),
                   thumbnail_url |-> thumb.url,
                   metadata |-> metadata,
                   attempts |-> thumb.attempts,
                   files |-> IF thumb.written THEN f2 \cup {ThumbnailFilename(k)}
                             ELSE f2,
                   stored |-> 1]

\* upload_file for the k-th stored upload: the response and the directory.
upload_file(f, k, file, file_type, env) ==
    IF file_type = "image" /\ file.content_type \notin ALLOWED_IMAGES
    THEN [status |-> 400, detail |-> "Invalid image format", files |-> f, stored |-> 0]
    ELSE IF file_type = "video" /\ file.content_type \notin ALLOWED_VIDEOS
    THEN [status |-> 400, detail |-> "Invalid video format", files |-> f, stored |-> 0]
    ELSE IF ImageTooLarge(file_type, file.size)
    THEN [status |-> 400, detail |-> "Image too large (max 10MB)", files |-> f,
          stored |-> 0]
    ELSE IF VideoTooLarge(file_type, file.size)
    THEN [status |-> 400, detail |-> "Video too large (max 50MB)", files |-> f,
          stored |-> 0]
    ELSE LET unique_filename == UniqueFilename(k, file.filename)
             f2 == f \cup {unique_filename}
             metadata == get_file_metadata(file_type, file.size, file.content_type, env)
             thumb == IF file_type = "video"
                      THEN generate_video_thumbnail(unique_filename \in f2,
                                                    ThumbnailFilename(k), env)
                      ELSE [url |-> None, written |-> FALSE, attempts |-> <<>>]
         IN  [status |-> 200, detail |-> "",
              filename |-> unique_filename,
              original_name |-> file.filename,
              url |-> UrlOf(unique_filename),
              thumbnail_url |-> thumb.url,
              metadata |-> metadata,
              attempts |-> thumb.attempts,
              files |-> IF thumb.written THEN f2 \cup {ThumbnailFilename(k)} ELSE f2,
              stored |-> 1]

\* The uploads a client sends.
UploadFiles ==
    [filename : {"clip.mp4", "pic.png"},
     content_type : {"image/png", "video/mp4", "text/plain"},
     size : {0, MAX_IMAGE_SIZE, MAX_IMAGE_SIZE + 1, MAX_VIDEO_SIZE, MAX_VIDEO_SIZE + 1}]

FileTypes == {"image", "video"}

UploadEnvs ==
    [pil : {"ok", "raises"},
     cap : {"ok", "no_fps", "unopened", "raises"},
     probe : {"ok", "raises"},
     first : {"ok", "empty", "raises"},
     fallback : {"ok", "empty", "raises"},
     opencv : {"ok", "unopened", "noframe", "writefail", "raises"}]

\* No upload is being served; n uploads have been stored.
UpIdle(n) == [n |-> n, op |-> "none"]

\* The requests in flight.
Slots == {1, 2}

\* A connection that is serving no request and has served n.
NoCall(n) == [pc |-> "idle", n |-> n]

NoCalls == [s \in Slots |-> NoCall(0)]

Init ==
    /\ db = EmptyDb
    /\ files = {StoredVideo, StoredThumb}
    /\ nextId = 1
    /\ last = Idle
    /\ up = UpIdle(0)
    /\ calls = NoCalls

CreatePortfolio ==
    /\ nextId <= MaxIds
    /\ \E portfolio \in PortfolioBodies :
           Done("create_portfolio", "", "", portfolio, {},
                create_portfolio(db, files, nextId, portfolio))

GetPortfolio ==
    \E portfolio_id \in IdArgs(nextId) :
        Done("get_portfolio", portfolio_id, "", NoData, {},
             get_portfolio(db, files, nextId, portfolio_id))

UpdatePortfolio ==
    \E portfolio_id \in IdArgs(nextId), portfolio \in PortfolioBodies :
        Done("update_portfolio", portfolio_id, "", portfolio, {},
             update_portfolio(db, files, nextId, portfolio_id, portfolio))

CreatePortfolioItem ==
    /\ nextId <= MaxIds
    /\ \E portfolio_id \in IdArgs(nextId), item \in ItemBodies(db) :
           Done("create_portfolio_item", portfolio_id, "", item, {},
                create_portfolio_item(db, files, nextId, portfolio_id, item))

UpdatePortfolioItem ==
    \E portfolio_id \in IdArgs(nextId), item_id \in ChildArgs(nextId),
       update_data \in PatchBodies(db) :
        Done("update_portfolio_item", portfolio_id, item_id, update_data, {},
             update_portfolio_item(db, files, nextId, portfolio_id, item_id,
                                   update_data))

DeletePortfolioItem ==
    \E portfolio_id \in IdArgs(nextId), item_id \in ChildArgs(nextId),
       denied \in SUBSET files :
        Done("delete_portfolio_item", portfolio_id, item_id, NoData, denied,
             delete_portfolio_item(db, files, nextId, portfolio_id, item_id, denied))

DeletePortfolio ==
    \E portfolio_id \in IdArgs(nextId), denied \in SUBSET files :
        Done("delete_portfolio", portfolio_id, "", NoData, denied,
             delete_portfolio(db, files, nextId, portfolio_id, denied))

CreateSection ==
    /\ nextId <= MaxIds
    /\ \E portfolio_id \in IdArgs(nextId), section \in SectionBodies :
           Done("create_section", portfolio_id, "", section, {},
                create_section(db, files, nextId, portfolio_id, section))

ListSections ==
    \E portfolio_id \in IdArgs(nextId) :
        Done("list_sections", portfolio_id, "", NoData, {},
             list_sections(db, files, nextId, portfolio_id))

UpdateSection ==
    \E portfolio_id \in IdArgs(nextId), section_id \in ChildArgs(nextId),
       section \in SectionBodies :
        Done("update_section", portfolio_id, section_id, section, {},
             update_section(db, files, nextId, portfolio_id, section_id, section))

DeleteSection ==
    \E portfolio_id \in IdArgs(nextId), section_id \in ChildArgs(nextId) :
        Done("delete_section", portfolio_id, section_id, NoData, {},
             delete_section(db, files, nextId, portfolio_id, section_id))

GetSectionOr404 ==
    \E portfolio_id \in IdArgs(nextId), section_id \in ChildArgs(nextId) :
        Done("get_section_or_404", portfolio_id, section_id, NoData, {},
             get_section_or_404(db, files, nextId, portfolio_id, section_id))

GetItemOr404 ==
    \E portfolio_id \in IdArgs(nextId), item_id \in ChildArgs(nextId) :
        Done("get_item_or_404", portfolio_id, item_id, NoData, {},
             get_item_or_404(db, files, nextId, portfolio_id, item_id))

RemoveItemFromPortfolio ==
    \E portfolio_id \in IdArgs(nextId), item_id \in ChildArgs(nextId) :
        Done("remove_item_from_portfolio", portfolio_id, item_id, NoData, {},
             remove_item_from_portfolio(db, files, nextId, portfolio_id, item_id))

RemoveSectionFromPortfolio ==
    \E portfolio_id \in IdArgs(nextId), section_id \in ChildArgs(nextId) :
        Done("remove_section_from_portfolio", portfolio_id, section_id, NoData, {},
             remove_section_from_portfolio(db, files, nextId, portfolio_id,
                                           section_id))

\* cleanup_portfolio_files on the items of a stored portfolio.
CleanupPortfolioFiles ==
    \E portfolio_id \in DOMAIN db, denied \in SUBSET files :
        Done("cleanup_portfolio_files", portfolio_id, "", NoData, denied,
             Outcome(200, None, db,
                     cleanup_portfolio_files(FindOne(db, portfolio_id).items, 1,
                                             files, denied),
                     nextId))

\* The response leaves the server; the handler's locals are gone.
Respond ==
    /\ last # Idle
    /\ last' = Idle
    /\ UNCHANGED <<db, files, nextId, up, calls>>

Next ==
    \/ CreatePortfolio
    \/ GetPortfolio
    \/ UpdatePortfolio
    \/ CreatePortfolioItem
    \/ UpdatePortfolioItem
    \/ DeletePortfolioItem
    \/ DeletePortfolio
    \/ CreateSection
    \/ ListSections
    \/ UpdateSection
    \/ DeleteSection
    \/ GetSectionOr404
    \/ GetItemOr404
    \/ RemoveItemFromPortfolio
    \/ RemoveSectionFromPortfolio
    \/ CleanupPortfolioFiles
    \/ Respond

Spec == Init /\ [][Next]_vars

\* The uploads directory is empty before the first upload.
InitUpload ==
    /\ db = EmptyDb
    /\ files = {}
    /\ nextId = 1
    /\ last = Idle
    /\ up = UpIdle(0)
    /\ calls = NoCalls

UploadFile ==
    /\ up.op = "none"
    /\ up.n < MaxUploads
    /\ \E file \in UploadFiles, file_type \in FileTypes, env \in UploadEnvs :
           LET out == upload_file(files, up.n + 1, file, file_type, env)
           IN  /\ up' = [n |-> up.n + out.stored, op |-> "upload_file",
                         file |-> file, file_type |-> file_type, env |-> env,
                         pre |-> files, out |-> out]
               /\ files' = out.files
    /\ UNCHANGED <<db, nextId, last, calls>>

\* The response leaves the server.
UploadRespond ==
    /\ up.op # "none"
    /\ up' = UpIdle(up.n)
    /\ UNCHANGED <<db, files, nextId, last, calls>>

NextUpload ==
    \/ UploadFile
    \/ UploadRespond

SpecUpload == InitUpload /\ [][NextUpload]_vars

(***************************************************************************)
(* Interleaved handlers.  The handlers are coroutines: a handler gives up  *)
(* control at every awaited store operation, so each store operation of a  *)
(* handler is one step and the steps of the requests in flight interleave. *)
(* The deletion of files between two store operations is a step of its     *)
(* own.  A slot records the handler's arguments and locals (portfolio: the *)
(* document it read, item_index, child, matched: result.matched_count) and *)
(* these observations: removed (the files the handler has deleted), stable  *)
(* (the items array held the same items in the same order when the handler *)
(* wrote as when it read), shifted (the items up to the position a patch   *)
(* located were no longer the same when it wrote), hit (the identifier of  *)
(* the element that was at the position a patch wrote to) and rivals (the  *)
(* other patches that had read but not yet written when this patch wrote), *)
(* and for a delete_portfolio_item pulled (how many items its $pull        *)
(* removed) and kept (an item of the requested identifier was still stored *)
(* after its $pull).                                                       *)
(***************************************************************************)
\* The store the interleaved requests start from: one portfolio with one
\* section and two items of that section, each item with its own files.
StepItem(k) ==
    [title |-> Str("t0"), section_id |-> Str(HexLower[2]),
     filename |-> Str(VideoName[k]), thumbnail_url |-> Str(UrlOf(ThumbName[k]))]

StepFiles == {VideoName[1], ThumbName[1], VideoName[2], ThumbName[2]}

StepDb ==
    LET d1 == create_portfolio(EmptyDb, StepFiles, 1, [title |-> Str("Demo")]).db
        d2 == create_section(d1, StepFiles, 2, HexLower[1], [title |-> Str("Work")]).db
        d3 == create_portfolio_item(d2, StepFiles, 3, HexLower[1], StepItem(1)).db
    IN  create_portfolio_item(d3, StepFiles, 4, HexLower[1], StepItem(2)).db

StepNextId == 5

\* What the interleaved requests are sent with.
StepPatches == {("title" :> Str("t1")), ("section_id" :> None)}

StepItemIds == {HexLower[3], HexLower[4]}

StepDenied == {{}, {VideoName[1]}}

\* The locals of a handler that has just been called.
Called(s, op, portfolio_id, id, data, denied) ==
    [pc |-> "called", n |-> calls[s].n + 1, op |-> op,
     portfolio_id |-> portfolio_id, id |-> id, data |-> data, denied |-> denied,
     portfolio |-> None, item_index |-> 0, child |-> None, matched |-> 0,
     removed |-> {}, stable |-> TRUE, shifted |-> FALSE, hit |-> None,
     rivals |-> {}, pulled |-> 0, kept |-> FALSE,
     status |-> 0, body |-> None]

\* The handler returns or raises: its response.
Answer(c, status, body) == [c EXCEPT !.pc = "done", !.status = status, !.body = body]

\* Slot s moves on; unless said otherwise nothing but the slot changes.
Goto(s, c) == calls' = [calls EXCEPT ![s] = c]

Free(s) == calls[s].pc = "idle" /\ calls[s].n < MaxCalls

At(s, op, pc) == calls[s].pc = pc /\ calls[s].op = op

\* for ... in portfolio.get("items", []): item.get(...) raises
\* AttributeError on a null element met before the match.
LoopRaises(items, item_id) ==
    \E i \in Idx(items) :
        /\ items[i] = None
        /\ \A j \in 1..(i - 1) : ~LoopMatch(items[j], item_id)

\* The identifiers of the elements of an array, in order.
ItemIds(items) == [i \in Idx(items) |-> ItemObjectId(items[i])]

\* $set of items.<item_index>.<key> for every key: on an element that is a
\* document the fields are set; past the end of the array the array is
\* padded with nulls and a new document is created; on a null element the
\* update fails with a write error.
PositionalSet(items, item_index, update_data) ==
    IF item_index <= Len(items)
    THEN IF items[item_index] = None
         THEN [ok |-> FALSE, items |-> items]
         ELSE [ok |-> TRUE, items |-> SetItemFields(items, item_index, update_data)]
    ELSE [ok |-> TRUE,
          items |-> [i \in 1..item_index |->
                        IF i <= Len(items) THEN items[i]
                        ELSE IF i < item_index THEN None
                        ELSE update_data]]

\* The items before the first null element: the loop of delete_portfolio
\* ends in its except clause there.
RECURSIVE UpToNull(_)
UpToNull(items) ==
    IF items = <<>> \/ Head(items) = None THEN <<>>
    ELSE <<Head(items)>> \o UpToNull(Tail(items))

(* delete_portfolio: find_one, the file deletions, delete_one. *)
DeletePortfolioFind(s) ==
    /\ Free(s)
    /\ \E portfolio_id \in DOMAIN StepDb, denied \in StepDenied :
           LET c == Called(s, "delete_portfolio", portfolio_id, "", NoData, denied)
           IN  IF ~Exists(db, portfolio_id)
               THEN Goto(s, Answer(c, 404, Str("Portfolio not found")))
               ELSE Goto(s, [c EXCEPT !.pc = "files",
                                      !.portfolio = FindOne(db, portfolio_id)])
    /\ UNCHANGED <<db, files, nextId, last, up>>

DeletePortfolioFiles(s) ==
    /\ At(s, "delete_portfolio", "files")
    /\ LET c == calls[s]
           f2 == RemoveAllFiles(UpToNull(c.portfolio.items), 1, files, c.denied)
       IN  /\ files' = f2
           /\ Goto(s, [c EXCEPT !.pc = "delete_one", !.removed = files \ f2])
    /\ UNCHANGED <<db, nextId, last, up>>

DeletePortfolioDeleteOne(s) ==
    /\ At(s, "delete_portfolio", "delete_one")
    /\ LET c == calls[s]
       IN  IF Exists(db, c.portfolio_id)
           THEN /\ db' = DeleteOne(db, c.portfolio_id)
                /\ Goto(s, Answer([c EXCEPT !.matched = 1], 200,
                                  Str("Portfolio deleted successfully")))
           ELSE /\ db' = db
                /\ Goto(s, Answer(c, 404, Str("Portfolio not found")))
    /\ UNCHANGED <<files, nextId, last, up>>

(* delete_portfolio_item: find_one and the lookup loop, the $pull, the *)
(* find_one that verifies it, the file deletions.                      *)
DeleteItemFind(s) ==
    /\ Free(s)
    /\ \E portfolio_id \in DOMAIN StepDb, item_id \in StepItemIds,
          denied \in StepDenied :
           LET c == Called(s, "delete_portfolio_item", portfolio_id, item_id,
                           NoData, denied)
               portfolio == FindOne(db, portfolio_id)
               i == FirstIdx(portfolio.items,
                        {p \in Idx(portfolio.items) :
                            LoopMatch(portfolio.items[p], item_id)})
           IN  IF ~Exists(db, portfolio_id)
               THEN Goto(s, Answer(c, 404, Str("Portfolio not found")))
               ELSE IF LoopRaises(portfolio.items, item_id)
               THEN Goto(s, Answer(c, 500, Str("Internal Server Error")))
               ELSE IF i = 0
               THEN Goto(s, Answer(c, 404, Str("Item not found")))
               ELSE Goto(s, [c EXCEPT !.pc = "pull", !.portfolio = portfolio,
                                      !.item_index = i,
                                      !.child = portfolio.items[i]])
    /\ UNCHANGED <<db, files, nextId, last, up>>

DeleteItemPull(s) ==
    /\ At(s, "delete_portfolio_item", "pull")
    /\ LET c == calls[s]
       IN  IF ~Exists(db, c.portfolio_id)
           THEN /\ db' = db
                /\ Goto(s, Answer(c, 404, Str("Portfolio not found")))
           ELSE LET portfolio == FindOne(db, c.portfolio_id)
                    doc == [portfolio EXCEPT !.items =
                               Pull(@, {p \in Idx(@) : PullsItem(@[p], c.id)})]
                IN  /\ db' = Store(db, c.portfolio_id, doc)
                    /\ Goto(s, [c EXCEPT !.pc = "verify", !.matched = 1,
                                         !.stable = ItemIds(portfolio.items)
                                                    = ItemIds(c.portfolio.items),
                                         !.pulled = Len(portfolio.items)
                                                    - Len(doc.items),
                                         !.kept = \E i \in Idx(doc.items) :
                                                      LoopMatch(doc.items[i], c.id)])
    /\ UNCHANGED <<files, nextId, last, up>>

DeleteItemVerify(s) ==
    /\ At(s, "delete_portfolio_item", "verify")
    /\ LET c == calls[s]
       IN  IF ~Exists(db, c.portfolio_id)
           THEN Goto(s, Answer(c, 500, Str("Internal Server Error")))
           ELSE IF Len(FindOne(db, c.portfolio_id).items) >= Len(c.portfolio.items)
           THEN Goto(s, Answer(c, 500, Str("Item deletion failed")))
           ELSE Goto(s, [c EXCEPT !.pc = "files",
                            !.body = [items_removed |->
                                Len(c.portfolio.items)
                                - Len(FindOne(db, c.portfolio_id).items)]])
    /\ UNCHANGED <<db, files, nextId, last, up>>

DeleteItemFiles(s) ==
    /\ At(s, "delete_portfolio_item", "files")
    /\ LET c == calls[s]
           f2 == RemoveItemFiles(c.child, files, c.denied).files
       IN  /\ files' = f2
           /\ Goto(s, Answer([c EXCEPT !.removed = files \ f2], 200, c.body))
    /\ UNCHANGED <<db, nextId, last, up>>

(* create_portfolio_item and create_section: find_one, then the $push, *)
(* whose result is not read.                                           *)
CreateItemFind(s) ==
    /\ Free(s)
    /\ \E portfolio_id \in DOMAIN StepDb :
           LET c == Called(s, "create_portfolio_item", portfolio_id, "",
                           StepItem(1), {})
           IN  IF ~Exists(db, portfolio_id)
               THEN /\ nextId' = nextId
                    /\ Goto(s, Answer(c, 404, Str("Portfolio not found")))
               ELSE /\ nextId' = nextId + 1
                    /\ Goto(s, [c EXCEPT !.pc = "push",
                                   !.child = PortfolioItemDict(Oid(HexLower[nextId]),
                                                               c.data)])
    /\ UNCHANGED <<db, files, last, up>>

CreateItemPush(s) ==
    /\ At(s, "create_portfolio_item", "push")
    /\ LET c == calls[s]
       IN  IF Exists(db, c.portfolio_id)
           THEN /\ db' = Store(db, c.portfolio_id,
                               [FindOne(db, c.portfolio_id) EXCEPT
                                   !.items = Append(@, c.child)])
                /\ Goto(s, Answer([c EXCEPT !.matched = 1], 200, c.child))
           ELSE /\ db' = db
                /\ Goto(s, Answer(c, 200, c.child))
    /\ UNCHANGED <<files, nextId, last, up>>

CreateSectionFind(s) ==
    /\ Free(s)
    /\ \E portfolio_id \in DOMAIN StepDb, section \in SectionBodies :
           LET c == Called(s, "create_section", portfolio_id, "", section, {})
           IN  IF ~Exists(db, portfolio_id)
               THEN /\ nextId' = nextId
                    /\ Goto(s, Answer(c, 404, Str("Portfolio not found")))
               ELSE /\ nextId' = nextId + 1
                    /\ Goto(s, [c EXCEPT !.pc = "push",
                                   !.child = SectionDict(Oid(HexLower[nextId]),
                                                         section)])
    /\ UNCHANGED <<db, files, last, up>>

CreateSectionPush(s) ==
    /\ At(s, "create_section", "push")
    /\ LET c == calls[s]
       IN  IF Exists(db, c.portfolio_id)
           THEN /\ db' = Store(db, c.portfolio_id,
                               [FindOne(db, c.portfolio_id) EXCEPT
                                   !.sections = Append(@, c.child)])
                /\ Goto(s, Answer([c EXCEPT !.matched = 1], 200, c.child))
           ELSE /\ db' = db
                /\ Goto(s, Answer(c, 200, c.child))
    /\ UNCHANGED <<files, nextId, last, up>>

(* update_portfolio_item: find_one and the lookup loop that computes the *)
(* index, the positional $set, the find_one that fetches the result.     *)
UpdateItemFind(s) ==
    /\ Free(s)
    /\ \E portfolio_id \in DOMAIN StepDb, item_id \in StepItemIds,
          update_data \in StepPatches :
           LET c == Called(s, "update_portfolio_item", portfolio_id, item_id,
                           update_data, {})
               portfolio == FindOne(db, portfolio_id)
               i == FirstIdx(portfolio.items,
                        {p \in Idx(portfolio.items) :
                            LoopMatch(portfolio.items[p], item_id)})
           IN  IF ~Exists(db, portfolio_id)
               THEN Goto(s, Answer(c, 404, Str("Portfolio not found")))
               ELSE IF LoopRaises(portfolio.items, item_id)
               THEN Goto(s, Answer(c, 500, Str("Internal Server Error")))
               ELSE IF i = 0
               THEN Goto(s, Answer(c, 404, Str("Item not found")))
               ELSE Goto(s, [c EXCEPT !.pc = "set", !.portfolio = portfolio,
                                      !.item_index = i,
                                      !.child = portfolio.items[i]])
    /\ UNCHANGED <<db, files, nextId, last, up>>

\* Variant: the position after the one the lookup loop found.
SetPosition_OffByOne(c) == c.item_index + 1

\* The position the $set addresses: the index computed from the read.
SetPosition(c) == c.item_index

UpdateItemSet(s) ==
    /\ At(s, "update_portfolio_item", "set")
    /\ LET c == calls[s]
       IN  IF ~Exists(db, c.portfolio_id)
           THEN /\ db' = db
                /\ Goto(s, Answer(c, 404, Str("Portfolio not found")))
           ELSE LET portfolio == FindOne(db, c.portfolio_id)
                    w == PositionalSet(portfolio.items, SetPosition(c), c.data)
                    seen == [c EXCEPT
                                !.matched = 1,
                                !.stable = ItemIds(portfolio.items)
                                           = ItemIds(c.portfolio.items),
                                !.shifted =
                                    \/ Len(portfolio.items) < c.item_index
                                    \/ SubSeq(ItemIds(portfolio.items), 1,
                                              c.item_index)
                                       # SubSeq(ItemIds(c.portfolio.items), 1,
                                                c.item_index),
                                !.hit = IF SetPosition(c) <= Len(portfolio.items)
                                        THEN ItemObjectId(
                                                 portfolio.items[SetPosition(c)])
                                        ELSE Str("past the end"),
                                !.rivals = {t \in Slots \ {s} :
                                               At(t, "update_portfolio_item", "set")}]
                IN  IF w.ok
                    THEN /\ db' = Store(db, c.portfolio_id,
                                        [portfolio EXCEPT !.items = w.items])
                         /\ Goto(s, [seen EXCEPT !.pc = "refetch"])
                    ELSE /\ db' = db
                         /\ Goto(s, Answer(seen, 500, Str("Internal Server Error")))
    /\ UNCHANGED <<files, nextId, last, up>>

UpdateItemRefetch(s) ==
    /\ At(s, "update_portfolio_item", "refetch")
    /\ LET c == calls[s]
           items == FindOne(db, c.portfolio_id).items
           j == FirstIdx(items, {p \in Idx(items) : LoopMatch(items[p], c.id)})
       IN  IF ~Exists(db, c.portfolio_id) \/ LoopRaises(items, c.id)
           THEN Goto(s, Answer(c, 500, Str("Internal Server Error")))
           ELSE IF j = 0
           THEN Goto(s, Answer(c, 404, Str("Updated item not found")))
           ELSE Goto(s, Answer(c, 200, items[j]))
    /\ UNCHANGED <<db, files, nextId, last, up>>

(* delete_section: find_one, the $unset on the items, the $pull of the *)
(* section.                                                            *)
DeleteSectionFind(s) ==
    /\ Free(s)
    /\ \E portfolio_id \in DOMAIN StepDb, section_id \in {HexLower[2]} :
           LET c == Called(s, "delete_section", portfolio_id, section_id, NoData, {})
           IN  IF ~Exists(db, portfolio_id)
               THEN Goto(s, Answer(c, 404, Str("Portfolio not found")))
               ELSE Goto(s, [c EXCEPT !.pc = "unset"])
    /\ UNCHANGED <<db, files, nextId, last, up>>

DeleteSectionUnset(s) ==
    /\ At(s, "delete_section", "unset")
    /\ LET c == calls[s]
       IN  /\ db' = IF Exists(db, c.portfolio_id)
                    THEN Store(db, c.portfolio_id,
                               [FindOne(db, c.portfolio_id) EXCEPT
                                   !.items = DetachSectionItems(@, c.id)])
                    ELSE db
           /\ Goto(s, [c EXCEPT !.pc = "pull"])
    /\ UNCHANGED <<files, nextId, last, up>>

DeleteSectionPull(s) ==
    /\ At(s, "delete_section", "pull")
    /\ LET c == calls[s]
       IN  IF Exists(db, c.portfolio_id)
           THEN /\ db' = Store(db, c.portfolio_id,
                               [FindOne(db, c.portfolio_id) EXCEPT
                                   !.sections = PullSection(@, c.id)])
                /\ Goto(s, Answer([c EXCEPT !.matched = 1], 200,
                                  Str("Section deleted successfully")))
           ELSE /\ db' = db
                /\ Goto(s, Answer(c, 404, Str("Portfolio not found")))
    /\ UNCHANGED <<files, nextId, last, up>>

\* The response leaves the server; the handler's locals are gone.
Return(s) ==
    /\ calls[s].pc = "done"
    /\ Goto(s, NoCall(calls[s].n))
    /\ UNCHANGED <<db, files, nextId, last, up>>

InitSteps ==
    /\ db = StepDb
    /\ files = StepFiles
    /\ nextId = StepNextId
    /\ last = Idle
    /\ up = UpIdle(0)
    /\ calls = NoCalls

NextSteps ==
    \/ \E s \in Slots : DeletePortfolioFind(s)
    \/ \E s \in Slots : DeletePortfolioFiles(s)
    \/ \E s \in Slots : DeletePortfolioDeleteOne(s)
    \/ \E s \in Slots : DeleteItemFind(s)
    \/ \E s \in Slots : DeleteItemPull(s)
    \/ \E s \in Slots : DeleteItemVerify(s)
    \/ \E s \in Slots : DeleteItemFiles(s)
    \/ \E s \in Slots : CreateItemFind(s)
    \/ \E s \in Slots : CreateItemPush(s)
    \/ \E s \in Slots : CreateSectionFind(s)
    \/ \E s \in Slots : CreateSectionPush(s)
    \/ \E s \in Slots : UpdateItemFind(s)
    \/ \E s \in Slots : UpdateItemSet(s)
    \/ \E s \in Slots : UpdateItemRefetch(s)
    \/ \E s \in Slots : DeleteSectionFind(s)
    \/ \E s \in Slots : DeleteSectionUnset(s)
    \/ \E s \in Slots : DeleteSectionPull(s)
    \/ \E s \in Slots : Return(s)

SpecSteps == InitSteps /\ [][NextSteps]_vars

(***************************************************************************)
(* Properties.  They read the request being answered (`last`, `up`): its   *)
(* arguments, the store before it, its response, and the store after it.   *)
(***************************************************************************)
\* The portfolio a request addressed, before and after the request.
Before == FindOne(last.pre, last.portfolio_id)

After == FindOne(db, last.portfolio_id)

\* The request had well-formed identifiers and found its portfolio.
Addressed(op) ==
    /\ last.op = op
    /\ last.status # 400
    /\ Exists(last.pre, last.portfolio_id)

\* The section of this identifier was added by create_section, which stores
\* it under the rendering it returned.
HadSection == \E i \in Idx(Before.sections) : Before.sections[i].id = Str(last.id)

\* C1: after a successful delete_section of a section that create_section
\* added, the section is in neither the stored sections array nor the answer
\* of list_sections, and a portfolio that had this one section has none.
C1_DeleteSectionRemoves ==
    (Addressed("delete_section") /\ last.status = 200 /\ HadSection) =>
        LET listed == list_sections(db, files, nextId, last.portfolio_id).body
        IN  /\ \A j \in Idx(After.sections) : After.sections[j].id # Str(last.id)
            /\ \A j \in Idx(listed) : listed[j]["_id"] # Str(last.id)
            /\ (Len(Before.sections) = 1 => After.sections = <<>>)

\* The scenario of the specification: the only section of a portfolio that
\* holds an item is deleted and the section array is empty.
C1_Witness ==
    /\ Addressed("delete_section")
    /\ last.status = 200
    /\ HadSection
    /\ Len(Before.items) > 0
    /\ After.sections = <<>>

C3_RemoveItemAsStated ==
    Addressed("remove_item_from_portfolio") =>
        IF find_item_by_id(Before, last.id) # None
        THEN last.body = PyBool(TRUE) /\ find_item_by_id(After, last.id) = None
        ELSE last.body = PyBool(FALSE) /\ db = last.pre

\* The item a patch addresses and what the patch should make of it.
PatchIndex == FirstIdx(Before.items,
                  {p \in Idx(Before.items) :
                      LoopMatch(Before.items[p], last.id)})

Patched(item, fields) ==
    [k \in DOMAIN item \cup DOMAIN fields |->
        IF k \in DOMAIN fields THEN fields[k] ELSE item[k]]

\* C4 as stated: for an existing item and any field map, the patch answers
\* with the item carrying exactly the submitted values over its previous
\* ones, a lookup of the same identifier finds that item at the same index,
\* and every other item and every section is unchanged.
C4_PatchAsStated ==
    (Addressed("update_portfolio_item") /\ PatchIndex # 0) =>
        LET expected == Patched(Before.items[PatchIndex], last.data)
            found == FirstIdx(After.items,
                         {p \in Idx(After.items) :
                             LoopMatch(After.items[p], last.id)})
        IN  /\ last.status = 200
            /\ last.body = expected
            /\ found = PatchIndex
            /\ After.items[PatchIndex] = expected
            /\ Len(After.items) = Len(Before.items)
            /\ \A k \in Idx(Before.items) \ {PatchIndex} :
                   After.items[k] = Before.items[k]
            /\ After.sections = Before.sections

\* The operation inserted or removed an item.
ItemInserted == Addressed("create_portfolio_item") /\ last.status = 200

ItemRemoved ==
    \/ Addressed("delete_portfolio_item") /\ last.status = 200
    \/ Addressed("remove_item_from_portfolio") /\ last.body = PyBool(TRUE)

\* C5 as stated: after a successful insertion or removal of an item the
\* parent portfolio carries a modification timestamp set by the operation.
C5_TouchAsStated ==
    (ItemInserted \/ ItemRemoved) =>
        /\ "updated_at" \in DOMAIN After
        /\ After.updated_at # None

\* C6 as stated: the identifiers of the items of a portfolio are pairwise
\* different, and so are those of its sections.
C6_UniqueAsStated ==
    \A p \in DOMAIN db :
        /\ \A i, j \in Idx(db[p].items) :
               i # j => ItemObjectId(db[p].items[i]) # ItemObjectId(db[p].items[j])
        /\ \A i, j \in Idx(db[p].sections) :
               i # j => db[p].sections[i].id # db[p].sections[j].id

\* C7 as stated: a request with a malformed identifier is answered 400.
C7_MalformedAsStated ==
    (last.op # "none" /\ (last.portfolio_id = BadId \/ last.id = BadId)) =>
        last.status = 400

\* The three comparisons of the locator contract: `_id` equal to the
\* resolved identifier, `id` equal to it, or the string rendering of a
\* populated identifier field equal to the requested string.
ThreeWayMatch(item, item_id) ==
    \/ Matches(item, "_id", Oid(item_id))
    \/ Matches(item, "id", Oid(item_id))
    \/ \E k \in {"_id", "id"} :
           Truthy(Get(item, k)) /\ PyStr(Get(item, k)) = item_id

\* C8 as stated: the locator finds an item whenever one matches under any of
\* the three comparisons (the first in array order), and reports not-found
\* only when none does.
C8_LocatorAsStated ==
    (\/ Addressed("get_item_or_404")
     \/ Addressed("update_portfolio_item")
     \/ Addressed("delete_portfolio_item")) =>
        LET first == FirstIdx(Before.items,
                         {p \in Idx(Before.items) :
                             ThreeWayMatch(Before.items[p], last.id)})
        IN  IF first = 0 THEN last.status = 404
            ELSE /\ last.body # Str("Item not found")
                 /\ (last.op = "get_item_or_404" =>
                         last.status = 200 /\ last.body = Before.items[first])

\* The content type is on the allow-list of the declared kind.
AllowedType ==
    \/ up.file_type = "image" /\ up.file.content_type \in ALLOWED_IMAGES
    \/ up.file_type = "video" /\ up.file.content_type \in ALLOWED_VIDEOS

\* C9: an upload of an allowed content type is accepted exactly when its
\* size is at most 10 MiB for an image and 50 MiB for a video, and is
\* otherwise rejected as too large.
C9_SizeCeiling ==
    (up.op = "upload_file" /\ AllowedType) =>
        LET ceiling == IF up.file_type = "image" THEN 10485760 ELSE 52428800
        IN  /\ up.out.status = 200 <=> up.file.size <= ceiling
            /\ up.out.status # 200 =>
                   /\ up.out.status = 400
                   /\ up.out.detail = IF up.file_type = "image"
                                      THEN "Image too large (max 10MB)"
                                      ELSE "Video too large (max 50MB)"
                   /\ files = up.pre

\* An image of exactly 10 MiB has been accepted and stored.
C9_Witness ==
    /\ up.op = "upload_file"
    /\ up.file_type = "image"
    /\ AllowedType
    /\ up.file.size = 10485760
    /\ up.out.status = 200
    /\ up.out.filename \in files

\* Every probe and every frame sampling of a video upload fails.
AllProbingFails ==
    /\ up.file_type = "video"
    /\ up.env.cap \in {"unopened", "no_fps", "raises"}
    /\ up.env.probe = "raises"
    /\ up.env.first # "ok"
    /\ up.env.fallback # "ok"
    /\ up.env.opencv # "ok"

\* C10 as stated: a valid video upload whose probing and sampling all fail
\* succeeds with duration, dimensions and thumbnail absent and filename and
\* url populated.
C10_ProbeFailureAsStated ==
    (up.op = "upload_file" /\ AllowedType /\ ~VideoTooLarge(up.file_type, up.file.size)
        /\ AllProbingFails) =>
        /\ up.out.status = 200
        /\ up.out.metadata.duration = None
        /\ up.out.metadata.dimensions = None
        /\ up.out.thumbnail_url = None
        /\ up.out.filename \in files
        /\ up.out.url = UrlOf(up.out.filename)

\* A video upload has been accepted and stored.
VideoStored ==
    /\ up.op = "upload_file"
    /\ up.file_type = "video"
    /\ up.out.status = 200

\* The sampling at the computed timestamp fails: the probe raises, the
\* extraction raises, or it leaves no thumbnail file or an empty one.
FirstSamplingFails == up.env.probe = "raises" \/ up.env.first # "ok"

\* The positions of the attempts of one kind.
AttemptsAt(kind) == {i \in DOMAIN up.out.attempts : up.out.attempts[i] = kind}

\* C11 as stated: whenever the sampling at the computed timestamp fails,
\* exactly one sampling at timestamp 0 is made, before any other outcome
\* (the OpenCV fallback, the response) is produced.
C11_RetryAsStated ==
    (VideoStored /\ FirstSamplingFails) =>
        /\ Cardinality(AttemptsAt("zero")) = 1
        /\ \A i \in AttemptsAt("zero"), j \in AttemptsAt("opencv") : i < j

\* The sampling at timestamp 0 fails as well.
BothSamplingsFail == FirstSamplingFails /\ up.env.fallback # "ok"

\* C12 as stated: when the sampling at the computed timestamp and the one
\* at timestamp 0 both fail, the thumbnail reference is absent and the
\* upload succeeds.
C12_BothFailAsStated ==
    (up.op = "upload_file" /\ up.file_type = "video" /\ AllowedType
        /\ ~VideoTooLarge(up.file_type, up.file.size) /\ BothSamplingsFail) =>
        /\ up.out.status = 200
        /\ up.out.thumbnail_url = None

\* C12, amended: when both ffmpeg samplings and the OpenCV fallback fail,
\* the thumbnail reference is absent, no thumbnail file is stored and the
\* upload succeeds with the file stored; when the OpenCV fallback succeeds
\* its thumbnail is returned.
C12_AllFailThumbnailAbsent ==
    (up.op = "upload_file" /\ up.file_type = "video" /\ AllowedType
        /\ ~VideoTooLarge(up.file_type, up.file.size) /\ BothSamplingsFail) =>
        /\ up.out.status = 200
        /\ up.out.filename \in files
        /\ IF up.env.opencv = "ok"
           THEN /\ up.out.thumbnail_url = Str(UrlOf(ThumbnailFilename(up.n)))
                /\ ThumbnailFilename(up.n) \in files
           ELSE /\ up.out.thumbnail_url = None
                /\ ThumbnailFilename(up.n) \notin files

\* Both ffmpeg samplings raised, the OpenCV fallback could not write the
\* frame, and the upload was answered without a thumbnail.
C12_Witness ==
    /\ VideoStored
    /\ up.env.probe = "ok"
    /\ up.env.first = "raises"
    /\ up.env.fallback = "raises"
    /\ up.env.opencv = "writefail"
    /\ up.out.attempts = <<"computed", "zero", "opencv">>
    /\ up.out.thumbnail_url = None
    /\ up.out.filename \in files

\* The files the given items refer to: main files and thumbnails.
DueFiles(items) ==
    {PyStr(items[i].filename) : i \in {j \in Idx(items) : Truthy(Get(items[j], "filename"))}}
    \cup {StripUploads(PyStr(items[i].thumbnail_url)) :
             i \in {j \in Idx(items) : Truthy(Get(items[j], "thumbnail_url"))}}

\* The items whose files a finished delete or cleanup was due to remove.
CleanedItems ==
    IF last.op = "delete_portfolio_item"
    THEN <<Before.items[FirstIdx(Before.items,
               {p \in Idx(Before.items) : LoopMatch(Before.items[p], last.id)})]>>
    ELSE Before.items

CleanupDone ==
    /\ last.op \in {"delete_portfolio_item", "delete_portfolio",
                    "cleanup_portfolio_files"}
    /\ last.status = 200

\* C13 as stated: in every cleanup path a file whose deletion fails stops
\* the deletion of no other file that is due (every due file that is still
\* there afterwards is one whose own deletion failed), and the delete
\* operation does not report failure.
C13_IsolationAsStated ==
    /\ CleanupDone =>
           \A name \in DueFiles(CleanedItems) \cap files : name \in last.denied
    /\ (/\ last.op \in {"delete_portfolio_item", "delete_portfolio"}
        /\ last.denied # {}) => last.status # 500

\* No section of the addressed portfolio carries the requested identifier,
\* under either field, as an identifier or as its rendering.
NoSuchSection ==
    \A i \in Idx(Before.sections) :
        /\ ~Matches(Before.sections[i], "id", Str(last.id))
        /\ ~Matches(Before.sections[i], "id", Oid(last.id))
        /\ ~Matches(Before.sections[i], "_id", Str(last.id))
        /\ ~Matches(Before.sections[i], "_id", Oid(last.id))

\* C16 as stated: delete_section on an existing portfolio with a
\* well-formed identifier of none of its sections fails with not-found and
\* leaves the portfolio unchanged.
C16_UnknownSectionAsStated ==
    (Addressed("delete_section") /\ NoSuchSection) =>
        /\ last.status = 404
        /\ db = last.pre

\* C17 as stated: update_section of a section that create_section added
\* succeeds and returns the section with the submitted values, keeping its
\* identifier and position; the other sections and the items are unchanged.
C17_UpdateSectionAsStated ==
    (Addressed("update_section") /\ HadSection) =>
        LET i == FirstIdx(Before.sections,
                     {p \in Idx(Before.sections) :
                         Before.sections[p].id = Str(last.id)})
        IN  /\ last.status = 200
            /\ last.body.title = last.data.title
            /\ Len(After.sections) = Len(Before.sections)
            /\ After.sections[i].id = Str(last.id)
            /\ After.sections[i].title = last.data.title
            /\ \A j \in Idx(Before.sections) \ {i} :
                   After.sections[j] = Before.sections[j]
            /\ After.items = Before.items

\* The requests in flight that delete a portfolio or an item.
Deleting(s) ==
    /\ calls[s].pc # "idle"
    /\ calls[s].op \in {"delete_portfolio", "delete_portfolio_item"}

\* C14 as stated: a delete has removed no file before the store confirmed
\* the removal of the portfolio or item, the files it removes are among
\* those the document it read refers to, and a delete that ends with
\* not-found or failure has removed no file.
C14_OrderAsStated ==
    \A s \in Slots :
        Deleting(s) =>
            /\ (calls[s].removed # {} => calls[s].matched = 1)
            /\ calls[s].removed \subseteq
                   DueFiles(IF calls[s].op = "delete_portfolio"
                            THEN calls[s].portfolio.items
                            ELSE <<calls[s].child>>)
            /\ (calls[s].pc = "done" /\ calls[s].status # 200 =>
                    calls[s].removed = {})

\* A request has been answered by create_portfolio_item or create_section.
Created(s) ==
    /\ calls[s].pc = "done"
    /\ calls[s].op \in {"create_portfolio_item", "create_section"}

\* C15 as stated: under any interleaving a creation answers with the child
\* only if its $push matched the portfolio and appended the child, and
\* answers not-found when the $push matched no document.
C15_PushAsStated ==
    \A s \in Slots :
        Created(s) =>
            /\ (calls[s].status = 200 => calls[s].matched = 1)
            /\ (calls[s].child # None /\ calls[s].matched = 0 =>
                    calls[s].status = 404)

\* The patch in slot s has written.
Wrote(s) ==
    /\ calls[s].pc \in {"refetch", "done"}
    /\ calls[s].op = "update_portfolio_item"
    /\ calls[s].matched = 1

\* The position the patch wrote to did not hold the item it had located.
Misdirected(s) == Wrote(s) /\ calls[s].hit # ItemObjectId(calls[s].child)

\* C18: a patch writes its fields to a position that does not hold its
\* target exactly in the interleavings in which the items up to its index
\* changed between the patch's read and its positional write (an item
\* before it, or the target itself, was removed); run alone, or beside
\* requests that leave those positions alone, it writes to its target.
C18_MisdirectedUnderRace ==
    \A s \in Slots : Wrote(s) => (Misdirected(s) <=> calls[s].shifted)

\* A delete_portfolio_item pulled an item between the read and the write
\* of a patch, and the patch modified a different item of the portfolio.
C18_Witness ==
    \E s \in Slots, t \in Slots :
        /\ s # t
        /\ Misdirected(s)
        /\ calls[s].hit \in {ItemObjectId(calls[s].portfolio.items[i]) :
                                i \in Idx(calls[s].portfolio.items)}
        /\ calls[t].pc # "idle"
        /\ calls[t].op = "delete_portfolio_item"
        /\ calls[t].matched = 1
        /\ \A k \in DOMAIN calls[s].data :
               \E i \in Idx(FindOne(db, calls[s].portfolio_id).items) :
                   LET it == FindOne(db, calls[s].portfolio_id).items[i]
                   IN  /\ ItemObjectId(it) = calls[s].hit
                       /\ Matches(it, k, calls[s].data[k])

\* Both requests in flight are patches that have written, and no item was
\* inserted or removed since either of them read.
TwoPatches ==
    /\ \A s \in Slots : Wrote(s) /\ calls[s].stable
    /\ \A s \in Slots :
           /\ Exists(db, calls[s].portfolio_id)
           /\ ItemIds(FindOne(db, calls[s].portfolio_id).items)
              = ItemIds(calls[s].portfolio.items)

\* The two patches address different items or different keys.
Disjoint ==
    \A s, t \in Slots :
        s # t =>
            \/ calls[s].portfolio_id # calls[t].portfolio_id
            \/ calls[s].item_index # calls[t].item_index
            \/ DOMAIN calls[s].data \cap DOMAIN calls[t].data = {}

\* The stored portfolio carries every field the patch in slot s submitted.
Reflected(s) ==
    LET item == FindOne(db, calls[s].portfolio_id).items[calls[s].item_index]
    IN  \A k \in DOMAIN calls[s].data : Matches(item, k, calls[s].data[k])

\* Each patch read before the other wrote.
BothReadFirst == \E s \in Slots : calls[s].rivals # {}

\* C19 as stated: two patches that both read before either writes, with no
\* insert or delete beside them, to different items or different keys,
\* leave a portfolio that does not reflect the fields of one of them.
C19_LostUpdateAsStated ==
    (TwoPatches /\ Disjoint /\ BothReadFirst) => \E s \in Slots : ~Reflected(s)

\* C19, amended: two concurrent patches with no insert or delete beside
\* them, to different items or to different keys of one item, are both
\* reflected in the stored portfolio, in every interleaving; of two patches
\* to the same key of one item the stored value is one of the two submitted.
C19_BothPatchesApplied ==
    TwoPatches =>
        /\ Disjoint => \A s \in Slots : Reflected(s)
        /\ \E s \in Slots : Reflected(s)

\* Two patches to different keys of the same item both read before either
\* wrote, and the item carries the fields of both.
C19_Witness ==
    /\ TwoPatches
    /\ BothReadFirst
    /\ \A s, t \in Slots :
           s # t =>
               /\ calls[s].item_index = calls[t].item_index
               /\ DOMAIN calls[s].data # DOMAIN calls[t].data
    /\ \A s \in Slots : Reflected(s)

\* The identifiers generated so far.
Generated == {HexLower[k] : k \in 1..(nextId - 1)}

\* C20: in every state of the store, also between the two writes of a
\* delete_section, detaching a section twice gives the same items as
\* detaching it once, and a delete_section run on that state and run again
\* leaves no item referring to the section, no such section, and everything
\* else as it was: the second run changes nothing.
C20_DetachIdempotent ==
    \A p \in DOMAIN db, section_id \in Generated :
        LET items == db[p].items
            once == DetachSectionItems(items, section_id)
            first == delete_section(db, files, nextId, p, section_id)
            second == delete_section(first.db, files, nextId, p, section_id)
        IN  /\ DetachSectionItems(once, section_id) = once
            /\ \A i \in Idx(once) : ~Matches(once[i], "section_id", Str(section_id))
            /\ first.db[p].items = once
            /\ \A i \in Idx(once) :
                   ~Matches(items[i], "section_id", Str(section_id)) =>
                       once[i] = items[i]
            /\ second.status = 200
            /\ second.db = first.db

\* A delete_section has detached two items and has not yet pulled the
\* section: the detach step is about to be repeated on its own result.
C20_Witness ==
    \E s \in Slots :
        /\ At(s, "delete_section", "pull")
        /\ Exists(db, calls[s].portfolio_id)
        /\ LET doc == FindOne(db, calls[s].portfolio_id)
           IN  /\ \E i \in Idx(doc.sections) : doc.sections[i].id = Str(calls[s].id)
               /\ Len(doc.items) >= 2
               /\ \A i \in Idx(doc.items) : "section_id" \notin DOMAIN doc.items[i]

\* The content type is not on the allow-list of the declared kind, or the
\* size exceeds the ceiling of the kind.
Unacceptable ==
    \/ ~AllowedType
    \/ up.file_type = "image" /\ up.file.size > MAX_IMAGE_SIZE
    \/ up.file_type = "video" /\ up.file.size > MAX_VIDEO_SIZE

\* C21: upload_file rejects exactly the requests whose content type is not
\* allowed for the declared kind or whose size exceeds its ceiling, and a
\* rejected request has written nothing to the uploads directory, has
\* consumed no file name, and carries no metadata and no thumbnail attempt.
C21_RejectsBeforeWriting ==
    up.op = "upload_file" =>
        /\ up.out.status = 400 <=> Unacceptable
        /\ up.out.status \in {200, 400}
        /\ up.out.status = 400 =>
               /\ files = up.pre
               /\ up.out.stored = 0
               /\ {"metadata", "attempts", "thumbnail_url", "filename"}
                      \cap DOMAIN up.out = {}

\* A video of an allowed type that is one byte over the ceiling was
\* rejected after an earlier upload had been stored: the directory holds
\* what it held before.
C21_Witness ==
    /\ up.op = "upload_file"
    /\ up.file_type = "video"
    /\ AllowedType
    /\ up.file.size = MAX_VIDEO_SIZE + 1
    /\ up.out.status = 400
    /\ up.n = 1
    /\ files = up.pre
    /\ files # {}

\* A delete_portfolio_item has been answered and its portfolio is still
\* stored (no delete_portfolio ran beside it).
ItemDeleteAnswered(s) ==
    /\ calls[s].pc = "done"
    /\ calls[s].op = "delete_portfolio_item"
    /\ Exists(db, calls[s].portfolio_id)

\* C22 as stated: under any interleaving with item creations and item
\* deletions on the same portfolio, delete_portfolio_item answers 500 only
\* if the target was still stored after its $pull; when it answers success
\* its $pull removed the item, items_removed is the number of items its
\* $pull removed, and the deletion of the item's files was attempted.
C22_VerifyAsStated ==
    \A s \in Slots :
        ItemDeleteAnswered(s) =>
            /\ (calls[s].status = 500 => calls[s].kept)
            /\ (calls[s].status = 200 =>
                    /\ calls[s].pulled >= 1
                    /\ calls[s].body.items_removed = calls[s].pulled
                    /\ (calls[s].denied = {} =>
                            DueFiles(<<calls[s].child>>) \cap files = {}))

====
